---- MODULE Spec2Model ----
(***************************************************************************)
(* Recording lifecycle of voice_recorder.py (class VoiceRecorder).         *)
(*                                                                         *)
(* Two kinds of execution paths are modelled:                              *)
(*   - the hotkey dispatcher (the pynput Listener thread), which runs      *)
(*     on_key_press, start_recording, stop_recording, transcribe_audio     *)
(*     and paste_text one statement group at a time (variable pc);         *)
(*   - one capture thread per start_recording (the closure record()),      *)
(*     whose position is tpc[t].                                           *)
(* Steps of different paths interleave freely, as Python threads do.       *)
(***************************************************************************)
EXTENDS Integers, Sequences, FiniteSets, TLC

\* ---- bounds of the model ------------------------------------------------
MaxCalls == 2
MaxChunks == 2
MaxClock == 2

\* ---- values ---------------------------------------------------------------
\* threading.Thread objects are numbered 1, 2, ...; 0 stands for None.
Threads == 1..MaxCalls
NoThread == 0
\* recording_start_time None
NoTime == 0
\* Optional[str] None, distinct from every text (texts are sequences of characters)
None == <<"None">>
\* raw responses of the transcription endpoint (response_format="text")
Responses == { <<"h", "i">>, <<" ", "h", " ">>, <<" ">> }
\* messages of raised exceptions (str(e))
ApiErrors == { "api" }
IoErrors == { "io" }
\* the two price points of __init__, in micro-dollars per minute
Prices == { 3000, 6000 }
\* who emitted a cue: 0 is the dispatcher, t > 0 a capture thread
Dispatcher == 0

VARIABLES
    is_recording,         \* self.is_recording
    audio_frames,         \* self.audio_frames: sequence of chunks <<thread, k>>
    recording_thread,     \* self.recording_thread (NoThread or a thread)
    recording_start_time, \* self.recording_start_time (NoTime or a clock value)
    cost_per_minute,      \* self.cost_per_minute, micro-dollars
    now,                  \* time.time() / datetime.now()
    pc,                   \* position of the dispatcher
    calls,                \* operations invoked so far, in order
    tpc,                  \* position of each capture thread
    reads,                \* chunks each capture thread has read from its stream
    stream,               \* input stream of each capture thread: none/open/closed
    sess,                 \* life of each recording session: none/active/ended
    tmpfiles,             \* temporary files that exist on disk
    ntmp,                 \* temporary files created so far
    audio_file,           \* stop_recording's local audio_file (0: none yet)
    wavs,                 \* container writes: [session, frames, ok]
    attempts,             \* calls of the transcription endpoint: [session, ok, response]
    loc,                  \* transcribe_audio's locals and stop_recording's transcription
    journal,              \* lines of voice_recorder_usage.jsonl
    clipboard,            \* system clipboard (None or a text)
    pastes,               \* paste_text invocations: [attempt, text]
    keystrokes,           \* paste keystrokes injected: [attempt]
    cues                  \* audio_cue calls: [event, by, session]

fields == <<is_recording, audio_frames, recording_thread, recording_start_time,
            cost_per_minute>>
capture == <<tpc, reads, stream>>
files == <<tmpfiles, ntmp, audio_file, wavs>>
sinks == <<journal, clipboard, pastes, keystrokes>>
vars == <<fields, now, pc, calls, capture, sess, files, attempts, loc, sinks, cues>>

\* ---- pure helpers ---------------------------------------------------------
IsSpace(c) == c = " "

RECURSIVE LStrip(_)
LStrip(s) == IF s # <<>> /\ IsSpace(Head(s)) THEN LStrip(Tail(s)) ELSE s

RECURSIVE RStrip(_)
RStrip(s) == IF s # <<>> /\ IsSpace(s[Len(s)])
             THEN RStrip(SubSeq(s, 1, Len(s) - 1)) ELSE s

\* str.strip()
Strip(s) == RStrip(LStrip(s))

\* Python truthiness of an Optional[str]
Truthy(x) == x # None /\ x # <<>>

\* result[:100] + "..." if len(result) > 100 else result
TextLimit == 100
JournalText(result) ==
    IF Len(result) > TextLimit
    THEN SubSeq(result, 1, TextLimit) \o <<".", ".", ".">>
    ELSE result

\* audio_duration_minutes * cost_per_minute, in micro-dollars
SecondsPerMinute == 60
EstimatedCost(duration, price) == (duration * price) \div SecondsPerMinute

Cue(event, by, session) == [event |-> event, by |-> by, session |-> session]

\* the session the dispatcher is working on: the last one start_recording began
NumSessions == Cardinality({ s \in Threads : sess[s] # "none" })
CurSession == NumSessions

\* (frames_at_stop is not a local: it remembers how many chunks audio_frames held
\* when stop_recording cleared is_recording)
NoLocals == [recording_duration |-> 0, response |-> None, result |-> None,
             e |-> "", transcription |-> None, frames_at_stop |-> 0]

\* ---- initial state: after VoiceRecorder.__init__ ---------------------------
Init ==
    /\ is_recording = FALSE
    /\ audio_frames = <<>>
    /\ recording_thread = NoThread
    /\ recording_start_time = NoTime
    /\ cost_per_minute \in Prices
    /\ now = 1
    /\ pc = "idle"
    /\ calls = <<>>
    /\ tpc = [t \in Threads |-> "unborn"]
    /\ reads = [t \in Threads |-> 0]
    /\ stream = [t \in Threads |-> "none"]
    /\ sess = [t \in Threads |-> "none"]
    /\ tmpfiles = {}
    /\ ntmp = 0
    /\ audio_file = 0
    /\ wavs = <<>>
    /\ attempts = <<>>
    /\ loc = NoLocals
    /\ journal = <<>>
    /\ clipboard = None
    /\ pastes = <<>>
    /\ keystrokes = <<>>
    /\ cues = <<>>

\* ---- the clock --------------------------------------------------------------
Tick ==
    /\ now < MaxClock
    /\ now' = now + 1
    /\ UNCHANGED <<fields, pc, calls, capture, sess, files, attempts, loc, sinks, cues>>

\* ---- entry points -----------------------------------------------------------
\* on_key_press with the hotkey: reads is_recording and dispatches
on_key_press ==
    /\ pc = "idle"
    /\ Len(calls) < MaxCalls
    /\ calls' = Append(calls, "toggle")
    /\ pc' = IF is_recording THEN "stop_257" ELSE "start_208"
    /\ UNCHANGED <<fields, now, capture, sess, files, attempts, loc, sinks, cues>>

\* a direct call of the public method start_recording()
call_start_recording ==
    /\ pc = "idle"
    /\ Len(calls) < MaxCalls
    /\ calls' = Append(calls, "start")
    /\ pc' = "start_208"
    /\ UNCHANGED <<fields, now, capture, sess, files, attempts, loc, sinks, cues>>

\* a direct call of the public method stop_recording()
call_stop_recording ==
    /\ pc = "idle"
    /\ Len(calls) < MaxCalls
    /\ calls' = Append(calls, "stop")
    /\ pc' = "stop_257"
    /\ UNCHANGED <<fields, now, capture, sess, files, attempts, loc, sinks, cues>>

\* ---- start_recording --------------------------------------------------------
\* start_recording without its guard
start_208_noguard ==
    /\ pc = "start_208"
    /\ pc' = "start_212"
    /\ UNCHANGED <<fields, now, calls, capture, sess, files, attempts, loc, sinks, cues>>

\* if self.is_recording: warning, return
start_208 ==
    /\ pc = "start_208"
    /\ pc' = IF is_recording THEN "idle" ELSE "start_212"
    /\ UNCHANGED <<fields, now, calls, capture, sess, files, attempts, loc, sinks, cues>>

\* self.recording_start_time = time.time()
start_212 ==
    /\ pc = "start_212"
    /\ recording_start_time' = now
    /\ pc' = "start_215"
    /\ UNCHANGED <<is_recording, audio_frames, recording_thread, cost_per_minute,
                   now, calls, capture, sess, files, attempts, loc, sinks, cues>>

\* self.audio_cue('start')
start_215 ==
    /\ pc = "start_215"
    /\ cues' = Append(cues, Cue("start", Dispatcher, NumSessions + 1))
    /\ pc' = "start_216"
    /\ UNCHANGED <<fields, now, calls, capture, sess, files, attempts, loc, sinks>>

\* self.is_recording = True: a new session begins
start_216 ==
    /\ pc = "start_216"
    /\ is_recording' = TRUE
    /\ sess' = [sess EXCEPT ![NumSessions + 1] = "active"]
    /\ pc' = "start_217"
    /\ UNCHANGED <<audio_frames, recording_thread, recording_start_time,
                   cost_per_minute, now, calls, capture, files, attempts, loc,
                   sinks, cues>>

\* start_recording keeping the chunks of the previous session
start_217_keep ==
    /\ pc = "start_217"
    /\ pc' = "start_251"
    /\ UNCHANGED <<fields, now, calls, capture, sess, files, attempts, loc, sinks, cues>>

\* self.audio_frames = []
start_217 ==
    /\ pc = "start_217"
    /\ audio_frames' = <<>>
    /\ pc' = "start_251"
    /\ UNCHANGED <<is_recording, recording_thread, recording_start_time,
                   cost_per_minute, now, calls, capture, sess, files, attempts,
                   loc, sinks, cues>>

\* self.recording_thread = threading.Thread(target=record); .start()
start_251 ==
    /\ pc = "start_251"
    /\ recording_thread' = CurSession
    /\ tpc' = [tpc EXCEPT ![CurSession] = "open"]
    /\ pc' = "idle"
    /\ UNCHANGED <<is_recording, audio_frames, recording_start_time,
                   cost_per_minute, now, calls, reads, stream, sess, files,
                   attempts, loc, sinks, cues>>

\* ---- record(): the capture thread ---------------------------------------------
\* pyaudio.PyAudio(); audio.open(input=True): succeeds or raises
rec_open(t) ==
    /\ tpc[t] = "open"
    /\ \E ok \in BOOLEAN :
        IF ok
        THEN /\ stream' = [stream EXCEPT ![t] = "open"]
             /\ tpc' = [tpc EXCEPT ![t] = "check"]
        ELSE /\ stream' = stream
             /\ tpc' = [tpc EXCEPT ![t] = "except"]
    /\ UNCHANGED <<fields, now, pc, calls, reads, sess, files, attempts, loc, sinks, cues>>

\* the loop polling is_recording only before every second read
rec_check_sparse(t) ==
    /\ tpc[t] = "check"
    /\ is_recording => reads[t] < MaxChunks
    /\ tpc' = [tpc EXCEPT ![t] =
                  IF (is_recording \/ reads[t] % 2 = 1) /\ reads[t] < MaxChunks
                  THEN "read" ELSE "close"]
    /\ UNCHANGED <<fields, now, pc, calls, reads, stream, sess, files, attempts, loc,
                   sinks, cues>>

\* while self.is_recording:
rec_check(t) ==
    /\ tpc[t] = "check"
    /\ is_recording => reads[t] < MaxChunks
    /\ tpc' = [tpc EXCEPT ![t] = IF is_recording THEN "read" ELSE "close"]
    /\ UNCHANGED <<fields, now, pc, calls, reads, stream, sess, files, attempts, loc,
                   sinks, cues>>

\* data = stream.read(self.CHUNK): returns the next chunk or raises
rec_read(t) ==
    /\ tpc[t] = "read"
    /\ \E ok \in BOOLEAN :
        IF ok
        THEN /\ reads' = [reads EXCEPT ![t] = @ + 1]
             /\ tpc' = [tpc EXCEPT ![t] = "append"]
        ELSE /\ reads' = reads
             /\ tpc' = [tpc EXCEPT ![t] = "except"]
    /\ UNCHANGED <<fields, now, pc, calls, stream, sess, files, attempts, loc, sinks, cues>>

\* the chunk put in front of the sequence instead of at its end
rec_append_front(t) ==
    /\ tpc[t] = "append"
    /\ audio_frames' = <<<<t, reads[t]>>>> \o audio_frames
    /\ tpc' = [tpc EXCEPT ![t] = "check"]
    /\ UNCHANGED <<is_recording, recording_thread, recording_start_time,
                   cost_per_minute, now, pc, calls, reads, stream, sess, files,
                   attempts, loc, sinks, cues>>

\* self.audio_frames.append(data)
rec_append(t) ==
    /\ tpc[t] = "append"
    /\ audio_frames' = Append(audio_frames, <<t, reads[t]>>)
    /\ tpc' = [tpc EXCEPT ![t] = "check"]
    /\ UNCHANGED <<is_recording, recording_thread, recording_start_time,
                   cost_per_minute, now, pc, calls, reads, stream, sess, files,
                   attempts, loc, sinks, cues>>

\* stream.stop_stream(); stream.close(); audio.terminate()
rec_close(t) ==
    /\ tpc[t] = "close"
    /\ stream' = [stream EXCEPT ![t] = "closed"]
    /\ tpc' = [tpc EXCEPT ![t] = "done"]
    /\ UNCHANGED <<fields, now, pc, calls, reads, sess, files, attempts, loc, sinks, cues>>

\* the except clause leaving is_recording as it is
rec_except_keepflag(t) ==
    /\ tpc[t] = "except"
    /\ sess' = [sess EXCEPT ![t] = "ended"]
    /\ tpc' = [tpc EXCEPT ![t] = "errcue"]
    /\ UNCHANGED <<fields, now, pc, calls, reads, stream, files, attempts, loc, sinks,
                   cues>>

\* except Exception: self.is_recording = False  (the session is aborted)
rec_except(t) ==
    /\ tpc[t] = "except"
    /\ is_recording' = FALSE
    /\ sess' = [sess EXCEPT ![t] = "ended"]
    /\ tpc' = [tpc EXCEPT ![t] = "errcue"]
    /\ UNCHANGED <<audio_frames, recording_thread, recording_start_time,
                   cost_per_minute, now, pc, calls, reads, stream, files, attempts,
                   loc, sinks, cues>>

\* self.audio_cue('error'), then the thread ends
rec_errcue(t) ==
    /\ tpc[t] = "errcue"
    /\ cues' = Append(cues, Cue("error", t, t))
    /\ tpc' = [tpc EXCEPT ![t] = "done"]
    /\ UNCHANGED <<fields, now, pc, calls, reads, stream, sess, files, attempts, loc,
                   sinks>>

\* ---- stop_recording -----------------------------------------------------------
\* what every way out of stop_recording (past its guard) leaves behind: the
\* session has been consumed and the locals are gone
Leave(next) ==
    /\ pc' = next
    /\ sess' = [sess EXCEPT ![CurSession] = "ended"]
    /\ loc' = NoLocals
    /\ audio_file' = 0

\* if not self.is_recording: warning, return
stop_257 ==
    /\ pc = "stop_257"
    /\ pc' = IF is_recording THEN "stop_262" ELSE "idle"
    /\ UNCHANGED <<fields, now, calls, capture, sess, files, attempts, loc, sinks, cues>>

\* self.is_recording = False
stop_262 ==
    /\ pc = "stop_262"
    /\ is_recording' = FALSE
    /\ loc' = [loc EXCEPT !.frames_at_stop = Len(audio_frames)]
    /\ pc' = "stop_264"
    /\ UNCHANGED <<audio_frames, recording_thread, recording_start_time,
                   cost_per_minute, now, calls, capture, sess, files, attempts,
                   sinks, cues>>

\* self.audio_cue('stop')
stop_264 ==
    /\ pc = "stop_264"
    /\ cues' = Append(cues, Cue("stop", Dispatcher, CurSession))
    /\ pc' = "stop_266"
    /\ UNCHANGED <<fields, now, calls, capture, sess, files, attempts, loc, sinks>>

\* stop_recording going on without waiting for the capture thread
stop_266_nojoin ==
    /\ pc = "stop_266"
    /\ pc' = "stop_271"
    /\ UNCHANGED <<fields, now, calls, capture, sess, files, attempts, loc, sinks, cues>>

\* if self.recording_thread: self.recording_thread.join()
stop_266 ==
    /\ pc = "stop_266"
    /\ recording_thread # NoThread => tpc[recording_thread] = "done"
    /\ pc' = "stop_271"
    /\ UNCHANGED <<fields, now, calls, capture, sess, files, attempts, loc, sinks, cues>>

\* stop_recording encoding whatever audio_frames holds, even nothing
stop_271_nocheck ==
    /\ pc = "stop_271"
    /\ pc' = "stop_278"
    /\ UNCHANGED <<fields, now, calls, capture, sess, files, attempts, loc, sinks, cues>>

\* if not self.audio_frames: warning, audio_cue('error'), return
stop_271 ==
    /\ pc = "stop_271"
    /\ pc' = IF audio_frames = <<>> THEN "stop_273" ELSE "stop_278"
    /\ UNCHANGED <<fields, now, calls, capture, sess, files, attempts, loc, sinks, cues>>

stop_273 ==
    /\ pc = "stop_273"
    /\ cues' = Append(cues, Cue("error", Dispatcher, CurSession))
    /\ Leave("idle")
    /\ UNCHANGED <<fields, now, calls, capture, tmpfiles, ntmp, wavs, attempts, sinks>>

\* with tempfile.NamedTemporaryFile(suffix=".wav", delete=False): a new file
stop_278 ==
    /\ pc = "stop_278"
    /\ ntmp' = ntmp + 1
    /\ audio_file' = ntmp + 1
    /\ tmpfiles' = tmpfiles \cup {ntmp + 1}
    /\ pc' = "stop_284"
    /\ UNCHANGED <<fields, now, calls, capture, sess, wavs, attempts, loc, sinks, cues>>

\* stop_recording going on to transcribe_audio whatever the container write did
stop_284_goon ==
    /\ pc = "stop_284"
    /\ \E ok \in BOOLEAN :
        wavs' = Append(wavs, [session |-> CurSession, frames |-> audio_frames,
                              file |-> audio_file, ok |-> ok])
    /\ pc' = "ta_315"
    /\ UNCHANGED <<fields, now, calls, capture, sess, tmpfiles, ntmp, audio_file,
                   attempts, loc, sinks, cues>>

\* wave.open(audio_file, 'wb') ... wf.writeframes(b''.join(self.audio_frames)):
\* succeeds, or raises and is caught at line 291
stop_284 ==
    /\ pc = "stop_284"
    /\ \E ok \in BOOLEAN :
        /\ wavs' = Append(wavs, [session |-> CurSession, frames |-> audio_frames,
                                 file |-> audio_file, ok |-> ok])
        /\ pc' = IF ok THEN "ta_315" ELSE "stop_293"
    /\ UNCHANGED <<fields, now, calls, capture, sess, tmpfiles, ntmp, audio_file,
                   attempts, loc, sinks, cues>>

\* except Exception: audio_cue('error'); return
stop_293 ==
    /\ pc = "stop_293"
    /\ cues' = Append(cues, Cue("error", Dispatcher, CurSession))
    /\ Leave("idle")
    /\ UNCHANGED <<fields, now, calls, capture, tmpfiles, ntmp, wavs, attempts, sinks>>

\* ---- transcribe_audio ----------------------------------------------------------
\* recording_duration = time.time() - self.recording_start_time if ... else 0
ta_315 ==
    /\ pc = "ta_315"
    /\ loc' = [loc EXCEPT !.recording_duration =
                  IF recording_start_time # NoTime THEN now - recording_start_time
                  ELSE 0]
    /\ pc' = "ta_332"
    /\ UNCHANGED <<fields, now, calls, capture, sess, files, attempts, sinks, cues>>

\* self.client.audio.transcriptions.create(...): returns text or raises
ta_332 ==
    /\ pc = "ta_332"
    /\ \/ \E r \in Responses :
            /\ attempts' = Append(attempts, [session |-> CurSession, ok |-> TRUE,
                                            response |-> r])
            /\ loc' = [loc EXCEPT !.response = r]
            /\ pc' = "ta_338"
       \/ \E e \in ApiErrors :
            /\ attempts' = Append(attempts, [session |-> CurSession, ok |-> FALSE,
                                            response |-> None])
            /\ loc' = [loc EXCEPT !.e = e]
            /\ pc' = "ta_368"
    /\ UNCHANGED <<fields, now, calls, capture, sess, files, sinks, cues>>

\* the record of a successful attempt (usage_data)
UsageData(result) ==
    [attempt |-> Len(attempts),
     timestamp |-> now,
     recording_duration_seconds |-> loc.recording_duration,
     transcription_length_chars |-> Len(result),
     estimated_cost_usd |-> EstimatedCost(loc.recording_duration, cost_per_minute),
     transcription_text |-> JournalText(result)]

\* the record of a failed attempt (error_data)
ErrorData ==
    [attempt |-> Len(attempts),
     timestamp |-> now,
     recording_duration_seconds |-> loc.recording_duration,
     error |-> loc.e,
     status |-> "failed"]

\* result = response.strip(); usage_data = {...}; append it to the log file:
\* the write succeeds and result is returned, or raises into the except clause
ta_338 ==
    /\ pc = "ta_338"
    /\ LET result == Strip(loc.response) IN
       \/ /\ journal' = Append(journal, UsageData(result))
          /\ loc' = [loc EXCEPT !.result = result, !.transcription = result]
          /\ pc' = "stop_302"
       \/ \E e \in IoErrors :
          /\ journal' = journal
          /\ loc' = [loc EXCEPT !.result = result, !.e = e]
          /\ pc' = "ta_368"
    /\ UNCHANGED <<fields, now, calls, capture, sess, files, attempts, clipboard,
                   pastes, keystrokes, cues>>

\* except Exception as e: self.audio_cue('error')
ta_368 ==
    /\ pc = "ta_368"
    /\ cues' = Append(cues, Cue("error", Dispatcher, CurSession))
    /\ pc' = "ta_371"
    /\ UNCHANGED <<fields, now, calls, capture, sess, files, attempts, loc, sinks>>

\* error_data = {...}; append it to the log file; return None.  A failing write
\* is raised out of transcribe_audio, stop_recording and on_key_press.
ta_371 ==
    /\ pc = "ta_371"
    /\ \/ /\ journal' = Append(journal, ErrorData)
          /\ loc' = [loc EXCEPT !.transcription = None]
          /\ pc' = "stop_302"
          /\ UNCHANGED <<sess, audio_file>>
       \/ /\ journal' = journal
          /\ Leave("crashed")
    /\ UNCHANGED <<fields, now, calls, capture, tmpfiles, ntmp, wavs, attempts,
                   clipboard, pastes, keystrokes, cues>>

\* ---- stop_recording, after transcribe_audio returned ------------------------------
\* os.unlink(audio_file)
stop_302 ==
    /\ pc = "stop_302"
    /\ tmpfiles' = tmpfiles \ {audio_file}
    /\ pc' = "stop_304"
    /\ UNCHANGED <<fields, now, calls, capture, sess, ntmp, audio_file, wavs,
                   attempts, loc, sinks, cues>>

\* stop_recording pasting whatever transcribe_audio returned
stop_304_always ==
    /\ pc = "stop_304"
    /\ pastes' = Append(pastes, [attempt |-> Len(attempts), text |-> loc.transcription])
    /\ pc' = "pt_389"
    /\ UNCHANGED <<fields, now, calls, capture, sess, files, attempts, loc, journal,
                   clipboard, keystrokes, cues>>

\* stop_recording signalling success without calling paste_text
stop_304_nopaste ==
    /\ pc = "stop_304"
    /\ pastes' = pastes
    /\ pc' = IF Truthy(loc.transcription) THEN "stop_308" ELSE "stop_311"
    /\ UNCHANGED <<fields, now, calls, capture, sess, files, attempts, loc, journal,
                   clipboard, keystrokes, cues>>

\* if transcription: self.paste_text(transcription) ... else: ...
stop_304 ==
    /\ pc = "stop_304"
    /\ IF Truthy(loc.transcription)
       THEN /\ pastes' = Append(pastes, [attempt |-> Len(attempts),
                                         text |-> loc.transcription])
            /\ pc' = "pt_389"
       ELSE /\ pastes' = pastes
            /\ pc' = "stop_311"
    /\ UNCHANGED <<fields, now, calls, capture, sess, files, attempts, loc, journal,
                   clipboard, keystrokes, cues>>

\* self.audio_cue('success')
stop_308 ==
    /\ pc = "stop_308"
    /\ cues' = Append(cues, Cue("success", Dispatcher, CurSession))
    /\ Leave("idle")
    /\ UNCHANGED <<fields, now, calls, capture, tmpfiles, ntmp, wavs, attempts, sinks>>

\* self.audio_cue('error')
stop_311 ==
    /\ pc = "stop_311"
    /\ cues' = Append(cues, Cue("error", Dispatcher, CurSession))
    /\ Leave("idle")
    /\ UNCHANGED <<fields, now, calls, capture, tmpfiles, ntmp, wavs, attempts, sinks>>

\* ---- paste_text ------------------------------------------------------------------
\* pyperclip.copy(text): sets the clipboard, or raises (outside any try)
pt_389 ==
    /\ pc = "pt_389"
    /\ \/ /\ clipboard' = loc.transcription
          /\ pc' = "pt_398"
          /\ UNCHANGED <<sess, loc, audio_file>>
       \/ /\ clipboard' = clipboard
          /\ Leave("crashed")
    /\ UNCHANGED <<fields, now, calls, capture, tmpfiles, ntmp, wavs, attempts,
                   journal, pastes, keystrokes, cues>>

\* try: the platform's paste keystroke; except Exception: logged
pt_398 ==
    /\ pc = "pt_398"
    /\ \E ok \in BOOLEAN :
        keystrokes' = IF ok THEN Append(keystrokes, [attempt |-> Len(attempts)])
                      ELSE keystrokes
    /\ pc' = "stop_308"
    /\ UNCHANGED <<fields, now, calls, capture, sess, files, attempts, loc, journal,
                   clipboard, pastes, cues>>

\* ---- the system ------------------------------------------------------------------
Next ==
    \/ Tick
    \/ on_key_press
    \/ call_start_recording
    \/ call_stop_recording
    \/ start_208
    \/ start_212
    \/ start_215
    \/ start_216
    \/ start_217
    \/ start_251
    \/ \E t \in Threads : rec_open(t)
    \/ \E t \in Threads : rec_check(t)
    \/ \E t \in Threads : rec_read(t)
    \/ \E t \in Threads : rec_append(t)
    \/ \E t \in Threads : rec_close(t)
    \/ \E t \in Threads : rec_except(t)
    \/ \E t \in Threads : rec_errcue(t)
    \/ stop_257
    \/ stop_262
    \/ stop_264
    \/ stop_266
    \/ stop_271
    \/ stop_273
    \/ stop_278
    \/ stop_284
    \/ stop_293
    \/ ta_315
    \/ ta_332
    \/ ta_338
    \/ ta_368
    \/ ta_371
    \/ stop_302
    \/ stop_304
    \/ stop_308
    \/ stop_311
    \/ pt_389
    \/ pt_398

Spec == Init /\ [][Next]_vars

\* ---- vocabulary of the properties ---------------------------------------------------
\* the capture thread of session t is inside its read loop (lines 234-239)
InLoop(t) == tpc[t] \in {"check", "read", "append"}

\* the capture thread of session t has raised (lines 246-249)
Errored(t) ==
    \/ tpc[t] \in {"except", "errcue"}
    \/ tpc[t] = "done" /\ stream[t] # "closed"

ActiveSessions == { s \in Threads : sess[s] = "active" }

\* container writes and transcription attempts of session s
Encodings(s) == { i \in 1..Len(wavs) : wavs[i].session = s }
Transcriptions(s) == { i \in 1..Len(attempts) : attempts[i].session = s }

\* no call is in progress: the last one returned, or raised out of on_key_press
AtRest == pc \in {"idle", "crashed"}

\* a start toggle and then a stop toggle, both over, the capture thread never raised
TwoTogglesDone ==
    /\ calls = <<"toggle", "toggle">>
    /\ AtRest
    /\ ~Errored(1)

\* ---- C1 ---------------------------------------------------------------------------
\* C1 as stated: after a start toggle and a stop toggle with no capture error,
\* is_recording is false and the session was encoded exactly once and transcribed
\* exactly once.
C1_ExactlyOneSessionProcessed ==
    TwoTogglesDone =>
        /\ ~is_recording
        /\ Cardinality(Encodings(1)) = 1
        /\ Cardinality(Transcriptions(1)) = 1

\* C1 amended: after a start toggle and a stop toggle with no capture error,
\* is_recording is false and the session was encoded at most once and transcribed at
\* most once; with no chunk captured nothing is encoded or transcribed; with a chunk
\* captured the container is written exactly once and the session is transcribed
\* exactly once if that write succeeded, not at all if it failed.
C1_AtMostOneSessionProcessed ==
    TwoTogglesDone =>
        /\ ~is_recording
        /\ Cardinality(Encodings(1)) <= 1
        /\ Cardinality(Transcriptions(1)) <= 1
        /\ audio_frames = <<>> =>
              /\ Encodings(1) = {}
              /\ Transcriptions(1) = {}
        /\ audio_frames # <<>> =>
              /\ Cardinality(Encodings(1)) = 1
              /\ wavs[1].frames = audio_frames
              /\ Cardinality(Transcriptions(1)) = (IF wavs[1].ok THEN 1 ELSE 0)

\* two toggles are over and the one session was encoded and sent to transcription
C1_Witness ==
    /\ TwoTogglesDone
    /\ Len(wavs) = 1
    /\ Len(attempts) = 1
    /\ audio_frames # <<>>

\* ---- C2 ---------------------------------------------------------------------------
\* C2: at most one session is active, at most one capture thread is in the read
\* loop, and a capture thread is in the read loop only while its own session is the
\* one active session.
C2_OneSessionOneLoop ==
    /\ Cardinality(ActiveSessions) <= 1
    /\ Cardinality({ t \in Threads : InLoop(t) }) <= 1
    /\ \A t \in Threads : InLoop(t) => ActiveSessions = {t}

\* the capture thread is still in its loop after stop_recording cleared the flag
C2_Witness ==
    /\ pc = "stop_266"
    /\ \E t \in Threads : tpc[t] = "append" /\ sess[t] = "active"

\* ---- C3 ---------------------------------------------------------------------------
\* C3: the step of start_recording that finds is_recording true, and the step of
\* stop_recording that finds it false, return at once and change nothing: no field,
\* no session, no capture thread, no cue, no file, no attempt, no journal line, no
\* delivery.
C3_WrongStateIsNoOp ==
    [][ ( /\ pc' # pc
          /\ \/ pc = "start_208" /\ is_recording
             \/ pc = "stop_257" /\ ~is_recording )
        => ( /\ pc' = "idle"
             /\ UNCHANGED <<fields, capture, sess, files, attempts, loc, sinks, cues>> )
      ]_vars

\* a second start_recording came back while the first session goes on recording
C3_Witness ==
    /\ calls = <<"start", "start">>
    /\ pc = "idle"
    /\ is_recording
    /\ NumSessions = 1
    /\ recording_thread = 1

\* ---- vocabulary of the pipeline properties -------------------------------------------
Attempts == 1..Len(attempts)

\* journal lines and paste_text invocations of attempt i
Records(i) == { j \in 1..Len(journal) : journal[j].attempt = i }
Pastes(i) == { j \in 1..Len(pastes) : pastes[j].attempt = i }

\* transcribe_audio has returned, or raised, for attempt i
Returned(i) == i < Len(attempts) \/ pc \notin {"ta_338", "ta_368", "ta_371"}

\* stop_recording is past its "if transcription:" for attempt i
Decided(i) ==
    i < Len(attempts) \/ pc \notin {"ta_338", "ta_368", "ta_371", "stop_302", "stop_304"}

\* stop_recording is over for attempt i
Over(i) == i < Len(attempts) \/ AtRest

\* attempt i has a usage_data line / an error_data line in the journal
JournaledSuccess(i) == \E j \in Records(i) : "transcription_text" \in DOMAIN journal[j]
JournaledError(i) ==
    \E j \in Records(i) :
        /\ "error" \in DOMAIN journal[j]
        /\ journal[j].error # ""
        /\ "transcription_text" \notin DOMAIN journal[j]

\* the exception that ended the dispatcher came out of the journal write of the last
\* attempt (line 380), respectively out of paste_text (line 389)
JournalRaised == pc = "crashed" /\ Pastes(Len(attempts)) = {}
PasteRaised == pc = "crashed" /\ Pastes(Len(attempts)) # {}

C5_OneCostedRecordPerAttempt ==
    \A i \in Attempts :
        Returned(i) =>
            /\ Cardinality(Records(i)) = 1
            /\ \A j \in Records(i) :
                  /\ "timestamp" \in DOMAIN journal[j]
                  /\ "estimated_cost_usd" \in DOMAIN journal[j]
                  /\ journal[j].estimated_cost_usd >= 0

\* ---- C6 ---------------------------------------------------------------------------
\* C6: when stop_recording is over, no temporary container file is left on disk.
C6_TempFileRemoved == AtRest => tmpfiles = {}

\* ---- C7 ---------------------------------------------------------------------------
\* C7 as stated: once stop_recording has decided on delivery, paste_text was invoked
\* exactly once for an attempt journaled as a success, and not at all for any other.
C7_PasteOncePerSuccess ==
    \A i \in Attempts :
        /\ Cardinality(Pastes(i)) <= 1
        /\ Decided(i) =>
              Cardinality(Pastes(i)) = (IF JournaledSuccess(i) THEN 1 ELSE 0)

\* C7 amended: once stop_recording has decided on delivery, paste_text was invoked
\* exactly once for an attempt journaled as a success with a non-empty trimmed text,
\* with that text, and not at all for any other attempt.
C7_PasteOncePerNonEmptySuccess ==
    \A i \in Attempts :
        /\ Cardinality(Pastes(i)) <= 1
        /\ \A j \in Pastes(i) : pastes[j].text = Strip(attempts[i].response)
        /\ Decided(i) =>
              Cardinality(Pastes(i)) =
                 (IF JournaledSuccess(i) /\ Strip(attempts[i].response) # <<>>
                  THEN 1 ELSE 0)

\* a successful attempt was delivered and stop_recording is over
C7_Witness ==
    /\ pc = "idle"
    /\ Len(attempts) = 1
    /\ JournaledSuccess(1)
    /\ Len(pastes) = 1

\* ---- C8 ---------------------------------------------------------------------------
\* C8: no exception of a journal write leaves stop_recording, and an attempt whose
\* text the endpoint returned but whose journal line could not be written is still
\* delivered by paste_text and signalled with the success cue.
C8_JournalFailureNeverAborts ==
    /\ ~JournalRaised
    /\ \A i \in Attempts :
          ( /\ attempts[i].ok
            /\ Truthy(Strip(attempts[i].response))
            /\ ~JournaledSuccess(i)
            /\ Over(i) ) =>
              /\ Pastes(i) # {}
              /\ \E k \in 1..Len(cues) :
                    cues[k] = Cue("success", Dispatcher, attempts[i].session)

\* ---- C9 ---------------------------------------------------------------------------
\* C9: no exception leaves paste_text, is_recording is false during and after
\* delivery, and after paste_text the clipboard holds the delivered text whether or
\* not the keystroke went through.
C9_DeliveryFailureSwallowed ==
    /\ ~PasteRaised
    /\ pc \in {"pt_389", "pt_398", "stop_308"} => ~is_recording
    /\ pc = "stop_308" => clipboard = pastes[Len(pastes)].text

\* ---- C10 --------------------------------------------------------------------------
\* C10: the chunks of a session whose capture thread raised are never successfully
\* written to a container, never sent to the endpoint and never delivered.
C10_ErroredSessionNeverProcessed ==
    \A t \in Threads :
        Errored(t) =>
            /\ \A i \in Encodings(t) : ~wavs[i].ok
            /\ Transcriptions(t) = {}
            /\ \A j \in 1..Len(pastes) : attempts[pastes[j].attempt].session # t

\* ---- vocabulary of the capture properties --------------------------------------------
\* the capture thread t has been started and has not terminated
Alive(t) == tpc[t] \notin {"unborn", "done"}

\* the capture thread t can still execute self.audio_frames.append (line 236)
CanAppend(t) == tpc[t] \in {"open", "check", "read", "append"}

\* ---- C11 --------------------------------------------------------------------------
\* C11: while stop_recording reads audio_frames (the emptiness test of line 271 and
\* the join of the chunks at line 288), the capture thread of the session has
\* terminated and no capture thread can append.
C11_EncoderReadsAfterJoin ==
    pc \in {"stop_271", "stop_273", "stop_278", "stop_284"} =>
        /\ recording_thread = CurSession
        /\ tpc[recording_thread] = "done"
        /\ \A t \in Threads : ~CanAppend(t)

\* stop_recording is about to write the chunks of a session whose thread has ended
C11_Witness ==
    /\ pc = "stop_284"
    /\ audio_frames # <<>>
    /\ tpc[recording_thread] = "done"

\* ---- C12 --------------------------------------------------------------------------
\* C12: once a capture thread has terminated, the input stream it opened is closed.
C12_StreamClosedOnExit ==
    \A t \in Threads : tpc[t] = "done" => stream[t] # "open"

\* ---- C13 --------------------------------------------------------------------------
\* C13: at most one capture thread is alive, so that no capture thread is started
\* while an earlier one has not terminated.
C13_OneCaptureThreadAlive ==
    Cardinality({ t \in Threads : Alive(t) }) <= 1

\* ---- C14 --------------------------------------------------------------------------
\* some capture thread holds the microphone: its input stream is open
MicOpen == \E t \in Threads : stream[t] = "open"

\* C14: no cue is played (the output device opened by _play_tone) in a state where
\* a capture thread has its input stream open.
C14_NoCueWhileMicOpen == [][ cues' # cues => ~MicOpen ]_vars

\* ---- scheduling ----------------------------------------------------------------------
\* one step of the capture thread t, whatever its position
rec_step(t) ==
    \/ rec_open(t)
    \/ rec_check(t)
    \/ rec_read(t)
    \/ rec_append(t)
    \/ rec_close(t)
    \/ rec_except(t)
    \/ rec_errcue(t)

\* A started Python thread keeps being scheduled, and every call it blocks in (the
\* device, a cue) returns: each capture thread takes its next step.
FairSpec == Spec /\ \A t \in Threads : WF_vars(rec_step(t))

\* ---- C15 --------------------------------------------------------------------------
\* the except clause of capture thread t has run (line 248 is behind it)
Handled(t) == tpc[t] = "errcue" \/ (tpc[t] = "done" /\ stream[t] # "closed")

\* the last session begun is one whose capture thread raised and handled it
LastSessionFailed == NumSessions >= 1 /\ Handled(NumSessions)

DispatcherCues(s, event) ==
    { k \in 1..Len(cues) : cues[k] = Cue(event, Dispatcher, s) }

\* C16: for a session whose container write failed, transcribe_audio is never
\* called, no journal line is written and nothing is pasted; from the except clause
\* of line 291 on is_recording is false until a new session begins, and once the
\* call is over the dispatcher has emitted an error cue for the session.
C16_WriteFailureAborts ==
    \A i \in 1..Len(wavs) :
        ~wavs[i].ok =>
            LET s == wavs[i].session IN
            /\ Transcriptions(s) = {}
            /\ \A j \in 1..Len(journal) : attempts[journal[j].attempt].session # s
            /\ \A j \in 1..Len(pastes) : attempts[pastes[j].attempt].session # s
            /\ pc \notin {"ta_315", "ta_332", "ta_338", "ta_368", "ta_371", "stop_302",
                          "stop_304", "pt_389", "pt_398", "stop_308", "stop_311"}
                  \/ s < CurSession
            /\ s = NumSessions => ~is_recording
            /\ (pc # "stop_293" \/ s < CurSession) => DispatcherCues(s, "error") # {}

\* stop_recording came back from a container write that failed
C16_Witness ==
    /\ pc = "idle"
    /\ Len(wavs) = 1
    /\ ~wavs[1].ok
    /\ DispatcherCues(1, "error") # {}

\* ---- C17 --------------------------------------------------------------------------
\* stop_recording is past line 262, where it cleared is_recording
PastClear ==
    pc \in {"stop_264", "stop_266", "stop_271", "stop_273", "stop_278", "stop_284",
            "stop_293", "ta_315", "ta_332", "ta_338", "ta_368", "ta_371", "stop_302",
            "stop_304", "pt_389", "pt_398", "stop_308", "stop_311"}

\* C17: from the moment stop_recording cleared is_recording, the capture thread
\* appends at most one more chunk to audio_frames.
C17_AtMostOneChunkAfterStop ==
    PastClear => Len(audio_frames) <= loc.frames_at_stop + 1

\* the read in progress when the flag was cleared has been appended, and joined
C17_Witness ==
    /\ pc = "stop_271"
    /\ Len(audio_frames) = loc.frames_at_stop + 1
    /\ ~Errored(recording_thread)

\* ---- C18 --------------------------------------------------------------------------
\* the chunks capture thread t has read from its stream, in read order
ChunksRead(t) == [k \in 1..reads[t] |-> <<t, k>>]

\* C18: the chunks handed to the container writer for a session are exactly the
\* chunks the session's capture thread read from the device, in read order.
C18_ContainerHoldsChunksRead ==
    \A i \in 1..Len(wavs) : wavs[i].frames = ChunksRead(wavs[i].session)

\* a container of two chunks has been written
C18_Witness ==
    /\ Len(wavs) = 1
    /\ wavs[1].ok
    /\ Len(wavs[1].frames) = 2

\* ---- C19 --------------------------------------------------------------------------
\* C19: once start_recording has reset audio_frames for a session, every chunk in
\* audio_frames was read by that session's own capture thread, and every chunk
\* handed to the container writer for a session was read by that session's thread.
C19_SessionsShareNoChunk ==
    /\ pc # "start_217" =>
          \A k \in 1..Len(audio_frames) : audio_frames[k][1] = CurSession
    /\ \A i \in 1..Len(wavs) :
          \A k \in 1..Len(wavs[i].frames) : wavs[i].frames[k][1] = wavs[i].session

\* a second session is capturing after a first one that had captured a chunk
C19_Witness ==
    /\ reads[1] >= 1
    /\ Handled(1)
    /\ sess[2] = "active"
    /\ audio_frames = <<<<2, 1>>>>

\* ---- C20 --------------------------------------------------------------------------
\* stop_recording passed its guard for session s and has returned
StopReturned(s) ==
    /\ DispatcherCues(s, "stop") # {}
    /\ s < CurSession \/ (~PastClear /\ pc # "crashed")

\* the dispatcher's outcome cues for session s
OutcomeCues(s) == DispatcherCues(s, "success") \cup DispatcherCues(s, "error")

\* C20: a stop_recording call that passed its guard and returned has emitted exactly
\* one stop cue and, after it, exactly one outcome cue (success or error).
C20_OneStopCueOneOutcomeCue ==
    \A s \in Threads :
        StopReturned(s) =>
            /\ Cardinality(DispatcherCues(s, "stop")) = 1
            /\ Cardinality(OutcomeCues(s)) = 1
            /\ \A k \in DispatcherCues(s, "stop") : \A m \in OutcomeCues(s) : k < m

\* ---- C21 --------------------------------------------------------------------------
\* one step of the dispatcher inside stop_recording, past its guard (lines 262-311,
\* with transcribe_audio and paste_text)
stop_step ==
    \/ stop_262
    \/ stop_264
    \/ stop_266
    \/ stop_271
    \/ stop_273
    \/ stop_278
    \/ stop_284
    \/ stop_293
    \/ ta_315
    \/ ta_332
    \/ ta_338
    \/ ta_368
    \/ ta_371
    \/ stop_302
    \/ stop_304
    \/ stop_308
    \/ stop_311
    \/ pt_389
    \/ pt_398

\* The capture threads keep running, and the listener thread goes on with the
\* statement it is at in stop_recording: every call it makes there (a cue, the join
\* once the thread has ended, a file operation, the endpoint, the clipboard) returns
\* or raises.
LiveSpec == FairSpec /\ WF_vars(stop_step)

\* stop_recording has passed its guard (line 257) with is_recording true
StopAccepted == pc = "stop_262"

\* the join of lines 266-269 has returned
JoinReturned == pc = "stop_271"

\* stop_recording has returned to the listener, which waits for the next key press
StopCompleted ==
    /\ pc = "idle"
    /\ ~is_recording
    /\ recording_thread # NoThread => tpc[recording_thread] = "done"

\* the transcription call of the session being stopped did not return: it raised
ApiRaised == \E i \in Transcriptions(CurSession) : ~attempts[i].ok

\* C21: once stop_recording has passed its guard, the capture thread it waits for
\* eventually ends, the join eventually returns, and, unless the transcription call
\* raised, stop_recording eventually returns with is_recording false and the
\* dispatcher waiting for the next toggle.
C21_StopEventuallyCompletes ==
    /\ StopAccepted ~> (recording_thread # NoThread /\ tpc[recording_thread] = "done")
    /\ StopAccepted ~> JoinReturned
    /\ StopAccepted ~> (StopCompleted \/ ApiRaised)

====
